---- MODULE Spec2Model ----
(***************************************************************************)
(* Resume analyzer: the document-to-feedback pipeline of analyze_resume    *)
(* (app.py), its four Gateway-backed steps (core/analyzer.py,              *)
(* core/scorer.py, core/rewriter.py), the parser (core/parser.py), the     *)
(* text helpers (utils/helpers.py) and the data model (models/schemas.py). *)
(*                                                                         *)
(* Text is a TLA+ string; Len, Head, Tail, SubSeq and \o act on its        *)
(* characters.  JSON values of Gateway replies are tagged records.         *)
(***************************************************************************)
EXTENDS Integers, Sequences, FiniteSets, TLC

VARIABLES client, env, run, calls, unit

vars == <<client, env, run, calls, unit>>

----------------------------------------------------------------------------
(* Bounds of the model *)

MaxLines == 3

MaxBulletsArg == 2

MaxRuns == 2

MaxReplyKeys == 3

MaxTextLen == 6

MaxRewrites == 3

MaxFeedback == 2

----------------------------------------------------------------------------
(* Characters and string helpers (Python str methods) *)

WS == {" ", "\t", "\n", "\r"}

Digits == {"0", "1", "2", "3", "4", "5", "6", "7", "8", "9"}

LowerLetters == "abcdefghijklmnopqrstuvwxyz"

UpperLetters == "ABCDEFGHIJKLMNOPQRSTUVWXYZ"

CharAt(s, i) == SubSeq(s, i, i)

(* Op(x) and Op(x, y) with the arguments evaluated once, before Op *)
Once(Op(_), x) == CHOOSE r \in {Op(v) : v \in {x}} : TRUE

Once2(Op(_, _), x, y) == CHOOSE r \in {Op(v, w) : v \in {x}, w \in {y}} : TRUE

IsLower(c) == \E i \in 1..26 : CharAt(LowerLetters, i) = c

IsUpper(c) == \E i \in 1..26 : CharAt(UpperLetters, i) = c

LowerOf ==
  [c \in {CharAt(UpperLetters, i) : i \in 1..26} |->
     CharAt(LowerLetters, CHOOSE i \in 1..26 : CharAt(UpperLetters, i) = c)]

LowerChar(c) == IF c \in DOMAIN LowerOf THEN LowerOf[c] ELSE c

(* the least and the greatest element of a non-empty set of integers *)
MinOf(S) == Once(LAMBDA T : CHOOSE x \in T : \A y \in T : x <= y, S)

MaxOf(S) == Once(LAMBDA T : CHOOSE x \in T : \A y \in T : x >= y, S)

(* the characters of s at the positions lo..hi that Keep retains, each     *)
(* mapped by Op; the string is assembled by halving                        *)
RECURSIVE Build(_, _, _, _, _)
Build(s, Keep(_), Op(_), lo, hi) ==
  IF lo > hi THEN ""
  ELSE IF lo = hi THEN (IF Keep(lo) THEN Op(CharAt(s, lo)) ELSE "")
  ELSE Once(LAMBDA mid : Build(s, Keep, Op, lo, mid) \o Build(s, Keep, Op, mid + 1, hi),
            (lo + hi) \div 2)

Same(c) == c

(* str.lower() *)
Lower(s) == Once(LAMBDA v : Build(v, LAMBDA i : TRUE, LowerChar, 1, Len(v)), s)

(* str.upper() *)
Upper(s) ==
  LET UpperChar(c) ==
        IF IsLower(c) THEN CharAt(UpperLetters, CHOOSE i \in 1..26 : CharAt(LowerLetters, i) = c)
        ELSE c
  IN  Once(LAMBDA v : Build(v, LAMBDA i : TRUE, UpperChar, 1, Len(v)), s)

RECURSIVE Rep(_, _)
Rep(c, n) == IF n <= 0 THEN "" ELSE c \o Rep(c, n - 1)

(* str.lstrip(cs) and str.rstrip(cs) *)
LStripChars(s, cs) ==
  Once(LAMBDA v :
         Once(LAMBDA other : IF other = {} THEN "" ELSE SubSeq(v, MinOf(other), Len(v)),
              {i \in 1..Len(v) : CharAt(v, i) \notin cs}),
       s)

RStripChars(s, cs) ==
  Once(LAMBDA v :
         Once(LAMBDA other : IF other = {} THEN "" ELSE SubSeq(v, 1, MaxOf(other)),
              {i \in 1..Len(v) : CharAt(v, i) \notin cs}),
       s)

(* str.strip() *)
Strip(s) == RStripChars(LStripChars(s, WS), WS)

(* position of character i of s within its maximal run of c's (0 if not c) *)
RunPos(s, c, i) ==
  IF CharAt(s, i) # c THEN 0
  ELSE i - MaxOf({0} \cup {j \in 1..i : CharAt(s, j) # c})

(* length of the maximal run of c's that holds character i of s *)
RunLenAt(s, c, i) ==
  IF CharAt(s, i) # c THEN 0
  ELSE MinOf({Len(s) + 1} \cup {j \in i..Len(s) : CharAt(s, j) # c})
         - MaxOf({0} \cup {j \in 1..i : CharAt(s, j) # c}) - 1

(* re.sub(c{k,}, c*n, s) for n <= k: of every maximal run of at least k    *)
(* c's only the first n stay                                               *)
SubRuns(s, c, k, n) ==
  Once(LAMBDA v :
         Build(v, LAMBDA i : ~(RunLenAt(v, c, i) >= k /\ RunPos(v, c, i) > n), Same, 1, Len(v)),
       s)

(* index of the first occurrence of character c in s from i on, 0 if none *)
Find(s, c, i) ==
  Once(LAMBDA hits : IF hits = {} THEN 0 ELSE MinOf(hits),
       {j \in i..Len(s) : CharAt(s, j) = c})

(* s.split(sep) for a one-character separator: always at least one piece *)
RECURSIVE Split(_, _)
Split(s, sep) ==
  Once2(LAMBDA v, i :
          IF i = 0 THEN <<v>>
          ELSE <<SubSeq(v, 1, i - 1)>> \o Split(SubSeq(v, i + 1, Len(v)), sep),
        s, Find(s, sep, 1))

RECURSIVE Join(_, _)
Join(parts, sep) ==
  IF parts = <<>> THEN ""
  ELSE IF Len(parts) = 1 THEN parts[1]
  ELSE parts[1] \o sep \o Join(Tail(parts), sep)

(* the characters of s before its first whitespace *)
UntilWS(s) ==
  Once2(LAMBDA v, ws : IF ws = {} THEN v ELSE SubSeq(v, 1, MinOf(ws) - 1),
        s, {i \in 1..Len(s) : CharAt(s, i) \in WS})

(* s.split()[0] when s.split() is not empty, else '' *)
FirstWord(s) == UntilWS(LStripChars(s, WS))

(* pat in s *)
Contains(s, pat) ==
  Once(LAMBDA v : \E i \in 1..(Len(v) - Len(pat) + 1) : SubSeq(v, i, i + Len(pat) - 1) = pat,
       s)

MapSeq(Op(_), s) == Once(LAMBDA v : [i \in 1..Len(v) |-> Op(v[i])], s)

Take(s, n) == Once(LAMBDA v : SubSeq(v, 1, IF Len(v) < n THEN Len(v) ELSE n), s)

----------------------------------------------------------------------------
(* utils/helpers.py *)

clean_text(text) ==
  IF text = "" THEN ""
  ELSE Strip(Join(MapSeq(Strip, Split(SubRuns(SubRuns(text, "\n", 3, 2), " ", 2, 1), "\n")),
                  "\n"))

MinBulletLen == 20

MinVerbLineLen == 25

(* the ASCII members of the glyph class of the first pattern *)
Glyphs == {"-", "*"}

NoMatch == [ok |-> FALSE, group |-> ""]

(* the rest of a marker line: \s*(.+)$ after the marker *)
Remainder(rest) ==
  Once(LAMBDA g : IF g # "" THEN [ok |-> TRUE, group |-> g] ELSE NoMatch,
       LStripChars(rest, WS))

(* ^[glyph]\s*(.+)$ on a stripped line *)
MatchGlyph(line) ==
  IF line # "" /\ Head(line) \in Glyphs THEN Remainder(Tail(line)) ELSE NoMatch

(* ^\d+\.\s*(.+)$ *)
MatchNumbered(line) ==
  Once(LAMBDA rest :
         IF line # "" /\ Head(line) \in Digits /\ rest # "" /\ Head(rest) = "."
         THEN Remainder(Tail(rest)) ELSE NoMatch,
       LStripChars(line, Digits))

(* ^[a-z]\)\s*(.+)$ *)
MatchLettered(line) ==
  IF Len(line) >= 2 /\ IsLower(Head(line)) /\ CharAt(line, 2) = ")"
  THEN Remainder(SubSeq(line, 3, Len(line))) ELSE NoMatch

(* the inner `for pattern in patterns` loop: the first pattern that matches *)
MatchPatterns(line) ==
  Once(LAMBDA g :
         IF g.ok THEN g
         ELSE Once(LAMBDA n : IF n.ok THEN n ELSE MatchLettered(line), MatchNumbered(line)),
       MatchGlyph(line))

action_verbs ==
  {  "led", "managed", "developed", "created", "implemented",
     "increased", "decreased", "improved", "designed", "built",
     "achieved", "delivered", "launched", "established", "generated",
     "reduced", "streamlined", "coordinated", "executed", "analyzed",
     "spearheaded", "orchestrated", "optimized", "collaborated", "drove",
     "facilitated", "mentored", "supervised", "oversaw", "authored",
     "crafted", "engineered", "architected", "pioneered", "transformed",
     "revamped", "modernized", "automated", "integrated", "negotiated",
     "secured", "acquired", "retained", "resolved", "responsible",
     "worked", "assisted", "helped", "supported"  }

(* the test made after each line of either pass: len(bullets) >= max_bullets *)
ReachedMax(bullets, max_bullets) == Len(bullets) >= max_bullets

(* Pass1Line without the length filter *)
Pass1Line_anylen(line, bullets) ==
  Once(LAMBDA m : IF m.ok THEN Append(bullets, Strip(m.group)) ELSE bullets,
       MatchPatterns(line))

(* the bullets after one line of the first loop *)
Pass1Line(line, bullets) ==
  Once(LAMBDA m :
         IF m.ok /\ Len(Strip(m.group)) > MinBulletLen
         THEN Append(bullets, Strip(m.group)) ELSE bullets,
       MatchPatterns(line))

(* first loop: marker lines; an empty line `continue`s past the limit test *)
RECURSIVE Pass1(_, _, _)
Pass1(lines, bullets, max_bullets) ==
  IF lines = <<>> THEN bullets
  ELSE Once2(LAMBDA line, rest :
               IF line = "" THEN Pass1(rest, bullets, max_bullets)
               ELSE Once(LAMBDA b2 :
                           IF ReachedMax(b2, max_bullets) THEN b2
                           ELSE Pass1(rest, b2, max_bullets),
                         Pass1Line(line, bullets)),
             Strip(Head(lines)), Tail(lines))

(* the test of the second loop on one stripped line *)
IsVerbLine(line) ==
  Once(LAMBDA first_word_full :
         /\ \/ first_word_full \in action_verbs
            \/ RStripChars(first_word_full, {"e", "d"}) \in action_verbs
         /\ Len(line) > MinVerbLineLen,
       Lower(FirstWord(line)))

(* second loop: lines that start with an action verb *)
RECURSIVE Pass2(_, _, _)
Pass2(lines, bullets, max_bullets) ==
  IF lines = <<>> THEN bullets
  ELSE Once2(LAMBDA line, rest :
               Once(LAMBDA b2 :
                      IF ReachedMax(b2, max_bullets) THEN b2
                      ELSE Pass2(rest, b2, max_bullets),
                    IF IsVerbLine(line) THEN Append(bullets, line) ELSE bullets),
             Strip(Head(lines)), Tail(lines))

extract_bullet_points(text, max_bullets) ==
  Once(LAMBDA lines :
         Once(LAMBDA bullets :
                IF bullets = <<>> THEN Pass2(lines, <<>>, max_bullets) ELSE bullets,
              Pass1(lines, <<>>, max_bullets)),
       Split(text, "\n"))

----------------------------------------------------------------------------
(* JSON values, as json.loads returns them.  A number is held in tenths    *)
(* (7.6 is 76, 12 is 120); an object is the ordered sequence of its        *)
(* <<key, value>> pairs, as a Python dict keeps insertion order.           *)

JNull == [t |-> "null"]

JStr(s) == [t |-> "str", v |-> s]

JNum(tenths) == [t |-> "num", v |-> tenths]

JNonFinite == [t |-> "nonfinite"]

JBool(b) == [t |-> "bool", v |-> b]

JList(items) == [t |-> "list", v |-> items]

JObj(pairs) == [t |-> "obj", v |-> pairs]

(* outcomes of one Gateway request followed by json.loads of its content *)
GatewayError == [kind |-> "error"]

NotJson == [kind |-> "notjson"]

Json(j) == [kind |-> "json", v |-> j]

(* Python truth value of a JSON value *)
Truthy(j) ==
  CASE j.t = "null" -> FALSE
    [] j.t = "str" -> j.v # ""
    [] j.t = "num" -> j.v # 0
    [] j.t = "nonfinite" -> TRUE
    [] j.t = "bool" -> j.v
    [] j.t = "list" -> j.v # <<>>
    [] j.t = "obj" -> j.v # <<>>

HasKey(o, k) == \E i \in 1..Len(o.v) : o.v[i][1] = k

(* dict.get(k, default) *)
Get(o, k, default) ==
  IF HasKey(o, k)
  THEN o.v[CHOOSE i \in 1..Len(o.v) : o.v[i][1] = k][2]
  ELSE default

(* iteration `for x in j`: a list gives its items, a dict its keys, a      *)
(* string its characters; anything else raises TypeError                   *)
Iter(j) ==
  CASE j.t = "list" -> [ok |-> TRUE, items |-> j.v]
    [] j.t = "obj" -> [ok |-> TRUE, items |-> [i \in 1..Len(j.v) |-> JStr(j.v[i][1])]]
    [] j.t = "str" -> [ok |-> TRUE, items |-> [i \in 1..Len(j.v) |-> JStr(CharAt(j.v, i))]]
    [] OTHER -> [ok |-> FALSE, items |-> <<>>]

IsStr(j) == j.t = "str"

IsStrList(j) == j.t = "list" /\ \A i \in 1..Len(j.v) : IsStr(j.v[i])

strs(j) == [i \in 1..Len(j.v) |-> j.v[i].v]

----------------------------------------------------------------------------
(* models/schemas.py *)

Criteria == <<"clarity", "impact", "relevance", "completeness", "ats_score">>

ScoreResult(c, i, r, k, a) ==
  [clarity |-> c, impact |-> i, relevance |-> r, completeness |-> k, ats_score |-> a]

(* the weighted sum of ScoreResult.overall in hundredths *)
WeightedSum(s) ==
  20 * s.clarity + 25 * s.impact + 20 * s.relevance
    + 15 * s.completeness + 20 * s.ats_score

(* overall with the weights of clarity and impact exchanged *)
overall_swapped(s, half_up) ==
  LET w == 25 * s.clarity + 20 * s.impact + 20 * s.relevance
             + 15 * s.completeness + 20 * s.ats_score
  IN  IF w % 10 = 0 THEN w \div 10 ELSE w \div 10 + (IF half_up THEN 1 ELSE 0)

(* ScoreResult.overall in tenths.  When the weighted sum lies half way      *)
(* between two tenths, round(x, 1) goes the way the binary floating-point  *)
(* sum happens to lie; half_up is that direction.                          *)
overall(s, half_up) ==
  IF WeightedSum(s) % 10 = 0 THEN WeightedSum(s) \div 10
  ELSE WeightedSum(s) \div 10 + (IF half_up THEN 1 ELSE 0)

(* grade with thresholds that exclude the boundary *)
grade_exclusive(score) ==
  IF score > 90 THEN "A+"
  ELSE IF score > 80 THEN "A"
  ELSE IF score > 70 THEN "B"
  ELSE IF score > 60 THEN "C"
  ELSE IF score > 50 THEN "D"
  ELSE "F"

(* ScoreResult.grade, from overall in tenths *)
grade(score) ==
  IF score >= 90 THEN "A+"
  ELSE IF score >= 80 THEN "A"
  ELSE IF score >= 70 THEN "B"
  ELSE IF score >= 60 THEN "C"
  ELSE IF score >= 50 THEN "D"
  ELSE "F"

SectionFeedback(name, found, st, im, mi) ==
  [section_name |-> name, content_found |-> found, strengths |-> st,
   improvements |-> im, missing_elements |-> mi]

RewriteSuggestion(o, i, e) == [original |-> o, improved |-> i, explanation |-> e]

ResumeSection(n, c) == [name |-> n, content |-> c, start_index |-> 0, end_index |-> 0]

(* len(raw_text.split()) *)
RECURSIVE CountWords(_)
CountWords(s) ==
  LET t == LStripChars(s, WS)
  IN  IF t = "" THEN 0
      ELSE 1 + CountWords(SubSeq(t, Len(FirstWord(t)) + 1, Len(t)))

(* ResumeData(...) followed by model_post_init *)
ResumeData(text, name, type) ==
  [raw_text |-> text, file_name |-> name, file_type |-> type,
   sections |-> <<>>, word_count |-> IF text # "" THEN CountWords(text) ELSE 0]

----------------------------------------------------------------------------
(* core/scorer.py *)

Max2(a, b) == IF a >= b THEN a ELSE b

Min2(a, b) == IF a <= b THEN a ELSE b

DigitValue(c) == CHOOSE d \in 0..9 : CharAt("0123456789", d + 1) = c

RECURSIVE DigitsValue(_, _)
DigitsValue(s, acc) ==
  IF s = "" THEN acc ELSE DigitsValue(Tail(s), 10 * acc + DigitValue(Head(s)))

(* int(x) of a Python str: optional sign, then decimal digits only *)
IntOfStr(s) ==
  Once(LAMBDA t :
         LET signed == t # "" /\ Head(t) \in {"+", "-"}
             ds == IF signed THEN Tail(t) ELSE t
         IN  IF ds # "" /\ \A i \in 1..Len(ds) : CharAt(ds, i) \in Digits
             THEN [ok |-> TRUE,
                   v |-> (IF signed /\ Head(t) = "-" THEN -1 ELSE 1) * DigitsValue(ds, 0)]
             ELSE [ok |-> FALSE, v |-> 0],
       Strip(s))

(* int(x): a number is truncated toward zero; ok is FALSE where int raises *)
IntOf(j) ==
  CASE j.t = "num" ->
         [ok |-> TRUE, v |-> IF j.v >= 0 THEN j.v \div 10 ELSE 0 - ((0 - j.v) \div 10)]
    [] j.t = "bool" -> [ok |-> TRUE, v |-> IF j.v THEN 1 ELSE 0]
    [] j.t = "str" -> IntOfStr(j.v)
    [] OTHER -> [ok |-> FALSE, v |-> 0]

(* clamp_score without the clamp *)
clamp_score_unclamped(score) == [ok |-> IntOf(score).ok, v |-> IntOf(score).v]

(* clamp_score with round() in the place of int() *)
clamp_score_rounded(score) ==
  IF score.t = "num"
  THEN [ok |-> TRUE, v |-> Max2(1, Min2(10, (score.v + 5) \div 10))]
  ELSE [ok |-> IntOf(score).ok, v |-> Max2(1, Min2(10, IntOf(score).v))]

clamp_score(score) ==
  Once(LAMBDA n : [ok |-> n.ok, v |-> Max2(1, Min2(10, n.v))], IntOf(score))

NeutralScore == 5

NeutralScores ==
  ScoreResult(NeutralScore, NeutralScore, NeutralScore, NeutralScore, NeutralScore)

(* ResumeScorer.__init__ *)
NewScorer == [score_explanations |-> JObj(<<>>)]

(* ScoreField with a lookup that raises KeyError on a missing criterion,    *)
(* which score would answer with the neutral result                         *)
ScoreField_strict(score_data, name) == Get(score_data, name, JNull)

(* the value looked up for one criterion: score_data.get(name, 5) *)
ScoreField(score_data, name) == Get(score_data, name, JNum(10 * NeutralScore))

(* ResumeScorer.score: the scorer after the call and the ScoreResult         *)
(* returned.  A reply that is not a JSON object raises before the           *)
(* explanations are stored; a field that int() rejects raises after.        *)
score(self, reply) ==
  IF reply.kind # "json" \/ reply.v.t # "obj"
  THEN [scorer |-> self, result |-> NeutralScores]
  ELSE LET score_data == reply.v
           self2 == [self EXCEPT !.score_explanations =
                       Get(score_data, "score_explanations", JObj(<<>>))]
       IN  Once(LAMBDA cs :
                  IF \A i \in 1..5 : cs[i].ok
                  THEN [scorer |-> self2,
                        result |-> ScoreResult(cs[1].v, cs[2].v, cs[3].v, cs[4].v, cs[5].v)]
                  ELSE [scorer |-> self2, result |-> NeutralScores],
                [i \in 1..5 |-> clamp_score(ScoreField(score_data, Criteria[i]))])

(* utils/helpers.py: get_score_color and format_score_bar *)
get_score_color(s) ==
  IF s >= 8 THEN "green" ELSE IF s >= 6 THEN "yellow"
  ELSE IF s >= 4 THEN "orange" ELSE "red"

format_score_bar(s) == [filled |-> 2 * s, empty |-> 20 - 2 * s, score |-> s, max_score |-> 10]

(* str.replace("_", " ").title() is kept as a tag on the name *)
Title(name) == <<"title", name>>

(* ResumeScorer.format_scores_display: ok is FALSE when .items() raises      *)
(* AttributeError, i.e. the stored explanations are truthy and no dict      *)
format_scores_display(self, scores, half_up) ==
  LET e == self.score_explanations
      head == << <<"Overall Score", overall(scores, half_up), grade(overall(scores, half_up))>>,
                 <<"Breakdown">> >>
      rows == [i \in 1..5 |->
                 <<Criteria[i], get_score_color(scores[Criteria[i]]),
                   format_score_bar(scores[Criteria[i]])>>]
      details == IF Truthy(e)
                 THEN << <<"Score Details">> >>
                        \o [i \in 1..Len(e.v) |-> <<"detail", Title(e.v[i][1]), e.v[i][2]>>]
                 ELSE <<>>
  IN  IF Truthy(e) /\ e.t # "obj" THEN [ok |-> FALSE, lines |-> <<>>]
      ELSE [ok |-> TRUE, lines |-> head \o rows \o details]

----------------------------------------------------------------------------
(* core/analyzer.py *)

(* the except branch of detect_sections *)
FullResume(resume) ==
  [resume EXCEPT !.sections = <<ResumeSection("full_resume", resume.raw_text)>>]

(* KeepsSection without the comparison with "null" *)
KeepsSection_truthy(content) == Truthy(content)

(* `if content and content != "null"` *)
KeepsSection(content) == Truthy(content) /\ ~(content.t = "str" /\ content.v = "null")

(* detect_sections that also resets the word count of the document *)
detect_sections_recount(resume, reply) ==
  [resume EXCEPT !.sections = <<ResumeSection("full_resume", resume.raw_text)>>,
                 !.word_count = 0]

(* ResumeAnalyzer.detect_sections: the reply's items in the reply's order;   *)
(* ResumeSection rejects a content that is not a str, which, like .items()  *)
(* on a reply that is no object, lands in the except branch                 *)
detect_sections(resume, reply) ==
  IF reply.kind # "json" \/ reply.v.t # "obj" THEN FullResume(resume)
  ELSE LET kept == SelectSeq(reply.v.v, LAMBDA item : KeepsSection(item[2]))
       IN  IF \E i \in 1..Len(kept) : ~IsStr(kept[i][2]) THEN FullResume(resume)
           ELSE [resume EXCEPT !.sections =
                   [i \in 1..Len(kept) |-> ResumeSection(kept[i][1], kept[i][2].v)]]

(* the except branch of analyze; reason stands for str(e) *)
FeedbackFallback(reason) ==
  [feedback |-> <<SectionFeedback("Error", FALSE, <<>>, <<"Analysis failed: " \o reason>>, <<>>)>>,
   summary |-> JStr("Unable to generate analysis. Please try again.")]

(* one element of analysis_data["sections"] read with .get and defaults *)
FeedbackFields(sd) ==
  [name |-> Get(sd, "section_name", JStr("Unknown")),
   found |-> Get(sd, "content_found", JBool(TRUE)),
   st |-> Get(sd, "strengths", JList(<<>>)),
   im |-> Get(sd, "improvements", JList(<<>>)),
   mi |-> Get(sd, "missing_elements", JList(<<>>))]

(* SectionFeedback(...) validates the field types *)
FeedbackValid(f) ==
  IsStr(f.name) /\ f.found.t = "bool" /\ IsStrList(f.st) /\ IsStrList(f.im) /\ IsStrList(f.mi)

(* ResumeAnalyzer.analyze: overall_summary is returned as the reply holds it *)
analyze(reply) ==
  IF reply.kind = "error" THEN FeedbackFallback("gateway error")
  ELSE IF reply.kind = "notjson" THEN FeedbackFallback("invalid json")
  ELSE IF reply.v.t # "obj" THEN FeedbackFallback("no attribute get")
  ELSE LET analysis_data == reply.v
           it == Iter(Get(analysis_data, "sections", JList(<<>>)))
       IN  IF ~it.ok THEN FeedbackFallback("not iterable")
           ELSE IF \E i \in 1..Len(it.items) : it.items[i].t # "obj"
           THEN FeedbackFallback("no attribute get")
           ELSE IF \E i \in 1..Len(it.items) : ~FeedbackValid(FeedbackFields(it.items[i]))
           THEN FeedbackFallback("validation error")
           ELSE [feedback |->
                   [i \in 1..Len(it.items) |->
                      LET f == FeedbackFields(it.items[i])
                      IN  SectionFeedback(f.name.v, f.found.v, strs(f.st), strs(f.im), strs(f.mi))],
                 summary |-> Get(analysis_data, "overall_summary", JStr(""))]

----------------------------------------------------------------------------
(* core/rewriter.py *)

RewriteFields(rw) ==
  [o |-> Get(rw, "original", JStr("")),
   i |-> Get(rw, "improved", JStr("")),
   e |-> Get(rw, "explanation", JStr(""))]

(* ParseRewrites returning the suggestions built before the item that raised *)
ParseRewrites_partial(reply) ==
  IF reply.kind # "json" \/ reply.v.t # "obj" THEN <<>>
  ELSE LET it == Iter(Get(reply.v, "rewrites", JList(<<>>)))
           good(i) == /\ it.items[i].t = "obj"
                      /\ IsStr(RewriteFields(it.items[i]).o)
                      /\ IsStr(RewriteFields(it.items[i]).i)
                      /\ IsStr(RewriteFields(it.items[i]).e)
           n == IF ~it.ok THEN 0
                ELSE CHOOSE k \in 0..Len(it.items) :
                       /\ \A i \in 1..k : good(i)
                       /\ k < Len(it.items) => ~good(k + 1)
       IN  [i \in 1..n |->
              LET f == RewriteFields(it.items[i])
              IN  RewriteSuggestion(f.o.v, f.i.v, f.e.v)]

(* the try block of rewrite_bullets applied to the Gateway outcome *)
ParseRewrites(reply) ==
  IF reply.kind # "json" \/ reply.v.t # "obj" THEN <<>>
  ELSE LET it == Iter(Get(reply.v, "rewrites", JList(<<>>)))
       IN  IF ~it.ok THEN <<>>
           ELSE IF \E i \in 1..Len(it.items) : it.items[i].t # "obj" THEN <<>>
           ELSE IF \E i \in 1..Len(it.items) :
                     LET f == RewriteFields(it.items[i])
                     IN  ~(IsStr(f.o) /\ IsStr(f.i) /\ IsStr(f.e))
           THEN <<>>
           ELSE [i \in 1..Len(it.items) |->
                   LET f == RewriteFields(it.items[i])
                   IN  RewriteSuggestion(f.o.v, f.i.v, f.e.v)]

(* RewriteNeedsCall without the test for an empty list *)
RewriteNeedsCall_always(bullet_points) == TRUE

(* whether rewrite_bullets sends a Gateway request for this argument *)
RewriteNeedsCall(bullet_points) == bullet_points # <<>>

(* ResumeRewriter.rewrite_bullets; reply is read only when a request is sent *)
rewrite_bullets(bullet_points, reply) ==
  IF ~RewriteNeedsCall(bullet_points) THEN <<>> ELSE ParseRewrites(reply)

ExperienceNames == {"experience", "work", "employment"}

(* the bullets extract_and_rewrite hands to rewrite_bullets *)
PrimaryBullets(resume, max_bullets) ==
  LET bullets == extract_bullet_points(resume.raw_text, max_bullets)
      hits == {i \in 1..Len(resume.sections) :
                 Lower(resume.sections[i].name) \in ExperienceNames}
  IN  IF bullets # <<>> \/ hits = {} THEN bullets
      ELSE extract_bullet_points(
             resume.sections[CHOOSE i \in hits : \A j \in hits : i <= j].content,
             max_bullets)

(* format_rewrites_display without the case of an empty list *)
format_rewrites_display_headed(suggestions) ==
  << <<"Improved Bullet Points">> >>
    \o [i \in 1..Len(suggestions) |->
          <<"Improvement", i, suggestions[i].original, suggestions[i].improved,
            suggestions[i].explanation>>]

(* ResumeRewriter.format_rewrites_display *)
format_rewrites_display(suggestions) ==
  IF suggestions = <<>>
  THEN << <<"No bullet points found to improve. Try adding more content to your experience section.">> >>
  ELSE << <<"Improved Bullet Points">> >>
         \o [i \in 1..Len(suggestions) |->
               <<"Improvement", i, suggestions[i].original, suggestions[i].improved,
                 suggestions[i].explanation>>]

----------------------------------------------------------------------------
(* core/parser.py.  An upload is [file_name, bytes]; bytes is empty (zero    *)
(* bytes), corrupt (bytes the PDF/DOCX library throws on) or text (bytes    *)
(* from which the format's extractor obtains that text).                    *)

SUPPORTED_EXTENSIONS == {".pdf", ".docx", ".doc", ".txt"}

RECURSIVE LastDot(_, _)
LastDot(name, i) ==
  IF i = 0 THEN 0 ELSE IF CharAt(name, i) = "." THEN i ELSE LastDot(name, i - 1)

(* Path(file_name).suffix *)
Suffix(name) ==
  LET d == LastDot(name, Len(name))
  IN  IF d <= 1 \/ d = Len(name) THEN "" ELSE SubSeq(name, d, Len(name))

(* what latin-1 decoding makes of bytes that are no document *)
Garbage == "%?"

(* _parse_pdf and _parse_docx: raised names the exception, "" when none *)
parse_binary(bytes, deps_ok) ==
  IF ~deps_ok THEN [raised |-> "ImportError", text |-> ""]
  ELSE IF bytes.kind = "corrupt" THEN [raised |-> "ValueError", text |-> ""]
  ELSE [raised |-> "", text |-> bytes.text]

(* _parse_txt: some decoding always succeeds *)
parse_txt(bytes) ==
  [raised |-> "", text |-> IF bytes.kind = "text" THEN bytes.text ELSE Garbage]

NoResume == ResumeData("", "", "")

(* ResumeParser.parse(file_bytes=..., file_name=...): `elif file_bytes and   *)
(* file_name` is false for zero bytes, before the extension is looked at    *)
parse(file, deps_ok) ==
  LET extension == Lower(Suffix(file.file_name))
      ex == IF extension = ".pdf" \/ extension \in {".docx", ".doc"}
            THEN parse_binary(file.bytes, deps_ok)
            ELSE parse_txt(file.bytes)
  IN  IF file.bytes.kind = "empty" \/ file.file_name = ""
      THEN [raised |-> "ValueError", why |-> "no file_bytes", resume |-> NoResume]
      ELSE IF extension \notin SUPPORTED_EXTENSIONS
      THEN [raised |-> "ValueError", why |-> "unsupported file type", resume |-> NoResume]
      ELSE IF ex.raised # ""
      THEN [raised |-> ex.raised, why |-> "extraction failed", resume |-> NoResume]
      ELSE [raised |-> "", why |-> "",
            resume |-> ResumeData(clean_text(ex.text), file.file_name, extension)]

----------------------------------------------------------------------------
(* models/schemas.py: AnalysisResult *)

(* AnalysisResult(...) validates overall_summary: str *)
AnalysisResultValid(overall_summary) == IsStr(overall_summary)

(* the lines of a section without its missing elements *)
FeedbackReportLines_nomissing(fb) ==
  << <<"section", Upper(fb.section_name)>> >>
    \o (IF fb.strengths # <<>>
        THEN << <<"Strengths:">> >> \o [i \in 1..Len(fb.strengths) |-> <<"item", fb.strengths[i]>>]
        ELSE <<>>)
    \o (IF fb.improvements # <<>>
        THEN << <<"Improvements:">> >> \o [i \in 1..Len(fb.improvements) |-> <<"item", fb.improvements[i]>>]
        ELSE <<>>)

FeedbackReportLines(fb) ==
  << <<"section", Upper(fb.section_name)>> >>
    \o (IF fb.strengths # <<>>
        THEN << <<"Strengths:">> >> \o [i \in 1..Len(fb.strengths) |-> <<"item", fb.strengths[i]>>]
        ELSE <<>>)
    \o (IF fb.improvements # <<>>
        THEN << <<"Improvements:">> >> \o [i \in 1..Len(fb.improvements) |-> <<"item", fb.improvements[i]>>]
        ELSE <<>>)
    \o (IF fb.missing_elements # <<>>
        THEN << <<"Missing:">> >> \o [i \in 1..Len(fb.missing_elements) |-> <<"item", fb.missing_elements[i]>>]
        ELSE <<>>)

RECURSIVE Flatten(_)
Flatten(ss) == IF ss = <<>> THEN <<>> ELSE Head(ss) \o Flatten(Tail(ss))

(* AnalysisResult.formatted_report, one tuple per line *)
formatted_report(a, half_up) ==
  << <<"RESUME ANALYSIS REPORT">>,
     <<"File:", a.resume.file_name>>,
     <<"Word Count:", a.resume.word_count>>,
     <<"SCORES">>,
     <<"Overall:", overall(a.scores, half_up), grade(overall(a.scores, half_up))>>,
     <<"Clarity:", a.scores.clarity>>,
     <<"Impact:", a.scores.impact>>,
     <<"Relevance:", a.scores.relevance>>,
     <<"Completeness:", a.scores.completeness>>,
     <<"ATS Score:", a.scores.ats_score>> >>
    \o (IF a.overall_summary # ""
        THEN << <<"SUMMARY">>, <<a.overall_summary>> >> ELSE <<>>)
    \o (IF a.section_feedback # <<>>
        THEN << <<"SECTION FEEDBACK">> >>
               \o Flatten([i \in 1..Len(a.section_feedback) |->
                             FeedbackReportLines(a.section_feedback[i])])
        ELSE <<>>)
    \o (IF a.rewrite_suggestions # <<>>
        THEN << <<"REWRITE SUGGESTIONS">> >>
               \o Flatten([i \in 1..Len(a.rewrite_suggestions) |->
                     << <<i, "Original:", a.rewrite_suggestions[i].original>>,
                        <<"Improved:", a.rewrite_suggestions[i].improved>>,
                        <<"Why:", a.rewrite_suggestions[i].explanation>> >>])
        ELSE <<>>)

----------------------------------------------------------------------------
(* app.py *)

(* get_client: the cached handle, or a new one when the credential is set *)
(* get_client that leaves the missing key to the first request *)
get_client_deferred(c, e) ==
  [raised |-> "", client |-> IF c = "None" /\ ~e.api_key THEN c ELSE "OpenAI"]

(* get_client whose handle serves one call only *)
get_client_single_use(c, e) ==
  IF c # "None" \/ ~e.api_key THEN [raised |-> "ValueError", client |-> c]
  ELSE [raised |-> "", client |-> "OpenAI"]

get_client(c, e) ==
  IF c = "None" /\ ~e.api_key THEN [raised |-> "ValueError", client |-> c]
  ELSE [raised |-> "", client |-> "OpenAI"]

PrimaryMaxBullets == 6

MinCandidateLen == 40

MaxCandidates == 5

BoilerplateMarkers == {"email", "phone", "@", "university", "degree", "bachelor", "master"}

(* candidate_lines without the filter on the markers *)
candidate_lines_unfiltered(raw_text) ==
  SelectSeq(MapSeq(Strip, Split(raw_text, "\n")), LAMBDA line : Len(line) > MinCandidateLen)

(* the candidate lines of the secondary pass, before [:5] *)
candidate_lines(raw_text) ==
  SelectSeq(SelectSeq(MapSeq(Strip, Split(raw_text, "\n")),
                      LAMBDA line : Len(line) > MinCandidateLen),
            LAMBDA l : Once(LAMBDA low : ~\E x \in BoilerplateMarkers : Contains(low, x),
                            Lower(l)))

(* the feedback view built by the loop over section_feedback *)
FeedbackDisplayLines(fb) ==
  << <<"section", Title(fb.section_name)>> >>
    \o (IF fb.strengths # <<>>
        THEN << <<"Strengths:">> >> \o [i \in 1..Len(fb.strengths) |-> <<"item", fb.strengths[i]>>]
        ELSE <<>>)
    \o (IF fb.improvements # <<>>
        THEN << <<"Areas for Improvement:">> >> \o [i \in 1..Len(fb.improvements) |-> <<"item", fb.improvements[i]>>]
        ELSE <<>>)
    \o (IF fb.missing_elements # <<>>
        THEN << <<"Consider Adding:">> >> \o [i \in 1..Len(fb.missing_elements) |-> <<"item", fb.missing_elements[i]>>]
        ELSE <<>>)
    \o << <<"---">> >>

feedback_display(section_feedback) ==
  << <<"Section-by-Section Feedback">> >>
    \o Flatten([i \in 1..Len(section_feedback) |-> FeedbackDisplayLines(section_feedback[i])])

summary_display(resume, overall_summary, scores, half_up) ==
  << <<"Resume Analysis Complete!">>,
     <<"File:", resume.file_name>>,
     <<"Word Count:", resume.word_count>>,
     <<"Sections Detected:", Len(resume.sections)>>,
     <<"Overview", overall_summary>>,
     <<"Overall Grade:", grade(overall(scores, half_up)), overall(scores, half_up)>> >>

(* the 5-tuple of an early or failed return: a message and four empty strings *)
Empty == <<>>

MessageOnly(msg) == <<msg, Empty, Empty, Empty, Empty>>

UploadPrompt == << <<"Please upload a resume file (PDF, DOCX, or TXT)">> >>

NoTextMessage ==
  << <<"Could not extract text from the file. Please ensure the file contains readable text.">> >>

ConfigurationError(why) == << <<"Configuration Error:", why>> >>

ErrorAnalyzing(why) == << <<"Error analyzing resume:", why>> >>

(* one except clause for every exception *)
Caught_generic(raised, why) == MessageOnly(ErrorAnalyzing(why))

(* the except clauses of analyze_resume *)
Caught(raised, why) ==
  IF raised = "ValueError" THEN MessageOnly(ConfigurationError(why))
  ELSE MessageOnly(ErrorAnalyzing(why))

----------------------------------------------------------------------------
(* Inputs of the pipeline: uploads and Gateway outcomes *)

TBullets == "- Led a team of 5 engineers to deliver project X\n- helped with stuff"

TPlain ==
  "Jane Doe\nEmail: jane@example.com and phone 555 1234 for contact\nSoftware engineer with ten years of experience in banking"

TShort == "Jane Doe\n\n\n\nShort  line "

TBlank == " \n\t \n"

TLong ==
  "Senior engineer at Acme Corp building billing systems\nStudied at State UNIVERSITY of Technology for four years\nPlatform engineer at Initech running the data pipelines\nBackend engineer at Globex owning the payments service\nVolunteer teacher of programming at the local library\nFrequent speaker at regional software conferences\nMaintainer of an open source library for parsing dates\nJane Doe"

DocTexts == {"", TBlank, TBullets, TPlain, TShort, TLong}

FileNames == {"cv.txt", "cv.PDF", "cv.docx", "cv.png"}

Bodies ==
  {[kind |-> "empty"], [kind |-> "corrupt"]} \cup {[kind |-> "text", text |-> t] : t \in DocTexts}

(* non-empty bytes of a text file never decode to the empty string *)
Files ==
  {f \in [file_name : FileNames, bytes : Bodies] :
     ~(Lower(Suffix(f.file_name)) = ".txt" /\ f.bytes.kind = "text" /\ f.bytes.text = "")}

NoFile == [file_name |-> "", bytes |-> [kind |-> "empty"]]

Taxonomy == <<"contact", "summary", "experience", "education", "skills", "projects", "other">>

DetectReplies ==
  {GatewayError, NotJson,
   Json(JObj([i \in 1..7 |-> <<Taxonomy[i], JNull>>])),
   Json(JObj(<< <<"contact", JStr("Jane Doe")>>, <<"summary", JStr("null")>>,
                <<"experience", JStr("* Built the billing system for the whole company")>> >>)),
   Json(JObj(<< <<"skills", JList(<<JStr("python")>>)>> >>))}

Explanations == JObj(<< <<"clarity", JStr("clear")>>, <<"ats_score", JStr("parses well")>> >>)

ScoreObj(c, i, r, k, a, tail) ==
  Json(JObj(<< <<"clarity", c>>, <<"impact", i>>, <<"relevance", r>>,
               <<"completeness", k>>, <<"ats_score", a>> >> \o tail))

ScenarioB == ScoreObj(JNum(120), JNum(-30), JNum(76), JNum(50), JNum(50), <<>>)

ScoreReplies ==
  {GatewayError, NotJson, ScenarioB,
   ScoreObj(JNum(70), JNum(80), JNum(60), JNum(90), JNum(70), << <<"score_explanations", Explanations>> >>),
   ScoreObj(JNum(90), JNum(90), JNum(100), JNum(90), JNum(90),
            << <<"score_explanations", JList(<<JStr("solid resume")>>)>> >>),
   Json(JObj(<< <<"score_explanations", Explanations>>, <<"clarity", JStr("high")>> >>)),
   Json(JObj(<< <<"clarity", JNum(90)>> >>))}

FeedbackSection ==
  JObj(<< <<"section_name", JStr("work_experience")>>, <<"content_found", JBool(TRUE)>>,
          <<"strengths", JList(<<JStr("clear roles")>>)>>,
          <<"improvements", JList(<<JStr("add metrics"), JStr("shorten")>>)>> >>)

FeedbackReplies ==
  {GatewayError, NotJson, Json(JObj(<<>>)),
   Json(JObj(<< <<"overall_summary", JStr("A solid start.")>>, <<"sections", JList(<<FeedbackSection>>)>> >>)),
   Json(JObj(<< <<"overall_summary", JNull>>, <<"sections", JList(<<FeedbackSection>>)>> >>)),
   Json(JObj(<< <<"sections", JList(<<JObj(<< <<"strengths", JStr("good")>> >>)>>)>> >>))}

RewriteReplies ==
  {GatewayError, NotJson, Json(JObj(<< <<"rewrites", JList(<<>>)>> >>)),
   Json(JObj(<< <<"rewrites", JList(<<JObj(<< <<"original", JStr("Led a team")>>,
                                               <<"improved", JStr("Led 5 engineers")>>,
                                               <<"explanation", JStr("quantified")>> >>)>>)>> >>))}

----------------------------------------------------------------------------
(* analyze_resume as a process: pc is the next step of the run, calls the   *)
(* Gateway requests the run has sent so far                                 *)

NoUnit == [fn |-> "none", in |-> <<>>, out |-> <<>>]

NewRun(id) ==
  [id |-> id, pc |-> "idle", outcome |-> "", has_file |-> FALSE, file |-> NoFile,
   resume |-> NoResume, scorer |-> NewScorer, scores |-> NeutralScores, half_up |-> FALSE,
   scores_display |-> Empty, section_feedback |-> <<>>, overall_summary |-> JStr(""),
   feedback_view |-> Empty, rewrite_suggestions |-> <<>>, ret |-> <<>>]

(* a return statement of analyze_resume *)
Return(r, outcome, ret) == [r EXCEPT !.pc = "done", !.outcome = outcome, !.ret = ret]

Call(step, reply, arg) == [step |-> step, kind |-> reply.kind, arg |-> arg]

ParseOutcome(p) ==
  IF p.why = "no file_bytes" THEN "no_bytes"
  ELSE IF p.why = "unsupported file type" THEN "unsupported"
  ELSE IF p.raised = "ImportError" THEN "import_error"
  ELSE "extraction_failure"

Init ==
  /\ client = "None"
  /\ env \in [api_key : BOOLEAN]
  /\ run = NewRun(1)
  /\ calls = <<>>
  /\ unit = NoUnit

(* app.py 52-85: up to the first Gateway request, for the uploads in files *)
BeginWith(files) ==
  /\ run.pc = "idle"
  /\ \E has_file \in BOOLEAN, deps_ok \in BOOLEAN, file \in files :
       LET gc == get_client(client, env)
           p == parse(file, deps_ok)
           r == [run EXCEPT !.has_file = has_file, !.file = IF has_file THEN file ELSE NoFile]
       IN  IF ~has_file
           THEN /\ run' = Return(r, "no_file", MessageOnly(UploadPrompt))
                /\ UNCHANGED client
           ELSE IF gc.raised # ""
           THEN /\ run' = Return(r, "missing_credential", Caught(gc.raised, "OPENAI_API_KEY not set"))
                /\ UNCHANGED client
           ELSE /\ client' = gc.client
                /\ run' = IF p.raised # ""
                          THEN Return(r, ParseOutcome(p), Caught(p.raised, p.why))
                          ELSE IF Strip(p.resume.raw_text) = ""
                          THEN Return([r EXCEPT !.resume = p.resume], "no_text", MessageOnly(NoTextMessage))
                          ELSE [r EXCEPT !.resume = p.resume, !.scorer = NewScorer, !.pc = "detect"]
  /\ UNCHANGED <<env, calls, unit>>

Begin == BeginWith(Files)

(* app.py 87-89 *)
DetectSections ==
  /\ run.pc = "detect"
  /\ \E reply \in DetectReplies :
       /\ calls' = Append(calls, Call("detect", reply, <<>>))
       /\ run' = [run EXCEPT !.resume = detect_sections(run.resume, reply), !.pc = "score"]
  /\ UNCHANGED <<client, env, unit>>

(* app.py 91-94: format_scores_display runs outside any try of the scorer *)
Score ==
  /\ run.pc = "score"
  /\ \E reply \in ScoreReplies, up \in BOOLEAN :
       LET s == score(run.scorer, reply)
           d == format_scores_display(s.scorer, s.result, up)
           r == [run EXCEPT !.scorer = s.scorer, !.scores = s.result, !.half_up = up]
       IN  /\ up => WeightedSum(s.result) % 10 # 0
           /\ calls' = Append(calls, Call("score", reply, <<>>))
           /\ run' = IF d.ok THEN [r EXCEPT !.scores_display = d.lines, !.pc = "analyze"]
                     ELSE Return(r, "display_error", Caught("AttributeError", "no attribute items"))
  /\ UNCHANGED <<client, env, unit>>

(* app.py 96-122 *)
Analyze ==
  /\ run.pc = "analyze"
  /\ \E reply \in FeedbackReplies :
       LET a == analyze(reply)
       IN  /\ calls' = Append(calls, Call("feedback", reply, <<>>))
           /\ run' = [run EXCEPT !.section_feedback = a.feedback,
                                 !.overall_summary = a.summary,
                                 !.feedback_view = feedback_display(a.feedback),
                                 !.pc = "rewrite"]
  /\ UNCHANGED <<client, env, unit>>

(* app.py 124-126: extract_and_rewrite *)
ExtractAndRewrite ==
  /\ run.pc = "rewrite"
  /\ \E bullets \in {PrimaryBullets(run.resume, PrimaryMaxBullets)} :
         IF RewriteNeedsCall(bullets)
         THEN \E reply \in RewriteReplies :
                /\ calls' = Append(calls, Call("rewrite", reply, bullets))
                /\ run' = [run EXCEPT !.rewrite_suggestions = rewrite_bullets(bullets, reply),
                                      !.pc = "secondary"]
         ELSE /\ run' = [run EXCEPT !.rewrite_suggestions = <<>>, !.pc = "secondary"]
              /\ UNCHANGED calls
  /\ UNCHANGED <<client, env, unit>>

(* app.py 128-136: the secondary pass *)
SecondaryPass ==
  /\ run.pc = "secondary"
  /\ \E candidates \in {IF run.rewrite_suggestions = <<>>
                          THEN candidate_lines(run.resume.raw_text) ELSE <<>>} :
       \E arg \in {Take(candidates, MaxCandidates)} :
         IF run.rewrite_suggestions = <<>> /\ candidates # <<>> /\ RewriteNeedsCall(arg)
         THEN \E reply \in RewriteReplies :
                /\ calls' = Append(calls, Call("rewrite", reply, arg))
                /\ run' = [run EXCEPT !.rewrite_suggestions = rewrite_bullets(arg, reply),
                                      !.pc = "assemble"]
         ELSE /\ run' = [run EXCEPT !.pc = "assemble"]
              /\ UNCHANGED calls
  /\ UNCHANGED <<client, env, unit>>

(* app.py 138-176 *)
Assemble ==
  /\ run.pc = "assemble"
  /\ run' =
       IF ~AnalysisResultValid(run.overall_summary)
       THEN Return(run, "validation_error", Caught("ValueError", "overall_summary: str expected"))
       ELSE Return(run, "complete",
              <<summary_display(run.resume, run.overall_summary.v, run.scores, run.half_up),
                run.scores_display,
                run.feedback_view,
                format_rewrites_display(run.rewrite_suggestions),
                formatted_report([resume |-> run.resume, scores |-> run.scores,
                                  section_feedback |-> run.section_feedback,
                                  rewrite_suggestions |-> run.rewrite_suggestions,
                                  overall_summary |-> run.overall_summary.v],
                                 run.half_up)>>)
  /\ UNCHANGED <<client, env, calls, unit>>

(* the next upload: the module-level client is kept, all else is per call *)
NextRequest ==
  /\ run.pc = "done"
  /\ run.id < MaxRuns
  /\ run' = NewRun(run.id + 1)
  /\ calls' = <<>>
  /\ UNCHANGED <<client, env, unit>>

Next ==
  \/ Begin
  \/ DetectSections
  \/ Score
  \/ Analyze
  \/ ExtractAndRewrite
  \/ SecondaryPass
  \/ Assemble
  \/ NextRequest

Spec == Init /\ [][Next]_vars

----------------------------------------------------------------------------
(* Two calls of analyze_resume in flight at once.  run and calls are the     *)
(* locals of the call that holds the processor, unit keeps the locals of    *)
(* the other call; client and env are the module's globals, common to both. *)
(* The processor changes hands between the steps of a call.                 *)

InitConcurrent ==
  /\ client = "None"
  /\ env \in [api_key : BOOLEAN]
  /\ run = NewRun(1)
  /\ calls = <<>>
  /\ unit = [fn |-> "analyze_resume", in |-> NewRun(2), out |-> <<>>]

Switch ==
  /\ run' = unit.in
  /\ calls' = unit.out
  /\ unit' = [unit EXCEPT !.in = run, !.out = calls]
  /\ UNCHANGED <<client, env>>

(* the uploads of the two calls: two text files *)
ConcurrentFiles ==
  {[file_name |-> "cv.txt", bytes |-> [kind |-> "text", text |-> TBullets]],
   [file_name |-> "plain.txt", bytes |-> [kind |-> "text", text |-> TPlain]]}

(* the Gateway outcomes of the two calls: an error, or a JSON reply that    *)
(* gives sections, neutral or explained scores, feedback with a summary,    *)
(* or suggestions                                                           *)
ConcurrentInputs(r, c) ==
  /\ \A i \in DOMAIN c : c[i].kind \in {"error", "json"}
  /\ \A i \in DOMAIN c :
       (c[i].step = "detect" /\ c[i].kind = "json")
         => (r.resume.sections # <<>> /\ r.resume.sections[1].name = "contact")
  /\ \A i \in DOMAIN c :
       (c[i].step = "score" /\ c[i].kind = "json") => r.scores = ScoreResult(7, 8, 6, 9, 7)
  /\ r.overall_summary.t = "str"
  /\ \A i \in DOMAIN c :
       (c[i].step = "feedback" /\ c[i].kind = "json") => r.overall_summary.v = "A solid start."
  /\ (c # <<>> /\ c[Len(c)].step = "rewrite" /\ c[Len(c)].kind = "json")
       => r.rewrite_suggestions # <<>>

SpecConcurrent ==
  InitConcurrent /\ [][
  \/ BeginWith(ConcurrentFiles)
  \/ DetectSections /\ ConcurrentInputs(run', calls')
  \/ Score /\ ConcurrentInputs(run', calls')
  \/ Analyze /\ ConcurrentInputs(run', calls')
  \/ ExtractAndRewrite /\ ConcurrentInputs(run', calls')
  \/ SecondaryPass /\ ConcurrentInputs(run', calls')
  \/ Assemble
  \/ Switch
  ]_vars

----------------------------------------------------------------------------
(* ResumeScorer.score on its own: one call on a new scorer, for every       *)
(* Gateway outcome built from the field values below                        *)

Absent == [t |-> "absent"]

FieldChoices ==
  <<Absent, JNull, JNonFinite, JStr("7"), JNum(-30), JNum(50), JNum(76), JNum(120)>>

ExplanationChoices == <<Absent, Explanations, JList(<<JStr("solid resume")>>)>>

ScoreObjOf(f, e) ==
  Json(JObj(SelectSeq([i \in 1..6 |-> IF i <= 5 THEN <<Criteria[i], FieldChoices[f[i]]>>
                                      ELSE <<"score_explanations", ExplanationChoices[e]>>],
                      LAMBDA kv : kv[2].t # "absent")))

NonObjectReplies == <<GatewayError, NotJson, Json(JList(<<JStr("contact")>>))>>

InitUnit ==
  /\ client = "None"
  /\ env = [api_key |-> TRUE]
  /\ run = NewRun(1)
  /\ calls = <<>>
  /\ unit = NoUnit

ScoreUnit ==
  /\ unit.fn = "none"
  /\ \E n \in 0..3 :
       \E f \in IF n = 0 THEN [1..5 -> DOMAIN FieldChoices] ELSE {[i \in 1..5 |-> 1]},
          e \in IF n = 0 THEN DOMAIN ExplanationChoices ELSE {1} :
         \E reply \in {IF n = 0 THEN ScoreObjOf(f, e) ELSE NonObjectReplies[n]} :
           unit' = [fn |-> "score", in |-> reply, out |-> score(NewScorer, reply)]
  /\ UNCHANGED <<client, env, run, calls>>

SpecScore == InitUnit /\ [][ScoreUnit]_vars

(* further calls of score on the same ResumeScorer: unit.out.scorer is the  *)
(* scorer the previous call left                                            *)
ScoreAgainUnit ==
  /\ unit.fn \in {"score", "score again"}
  /\ \E reply \in ScoreReplies :
       unit' = [fn |-> "score again", in |-> reply, out |-> score(unit.out.scorer, reply)]
  /\ UNCHANGED <<client, env, run, calls>>

SpecScorer == InitUnit /\ [][ScoreUnit \/ ScoreAgainUnit]_vars

(* ResumeAnalyzer.detect_sections on its own: replies are objects of up to  *)
(* MaxReplyKeys distinct keys in any order                                  *)

ReplyKeys == {"contact", "experience", "skills", "awards"}

ContentChoices ==
  <<JNull, JStr("null"), JStr(""), JStr("Acme Corp 2019-2023"), JList(<<JStr("python")>>)>>

KeyValueSeqs ==
  UNION {{kv \in [1..n -> ReplyKeys \X DOMAIN ContentChoices] :
            \A i, j \in 1..n : i # j => kv[i][1] # kv[j][1]} : n \in 0..MaxReplyKeys}

DetectObjOf(kv) == Json(JObj([i \in DOMAIN kv |-> <<kv[i][1], ContentChoices[kv[i][2]]>>]))

DetectUnit ==
  /\ unit.fn = "none"
  /\ \E text \in {TBullets, TShort}, n \in 0..3 :
       \E resume \in {ResumeData(clean_text(text), "cv.txt", ".txt")},
          kv \in IF n = 0 THEN KeyValueSeqs ELSE {<<>>} :
         \E reply \in {IF n = 0 THEN DetectObjOf(kv) ELSE NonObjectReplies[n]} :
           unit' = [fn |-> "detect_sections", in |-> [resume |-> resume, reply |-> reply],
                  out |-> detect_sections(resume, reply)]
  /\ UNCHANGED <<client, env, run, calls>>

SpecDetect == InitUnit /\ [][DetectUnit]_vars

(* extract_bullet_points on its own: texts of up to MaxLines sample lines   *)

SampleLines ==
  {"- Led a team of 5 engineers to deliver project X",
   "- helped with stuff",
   "",
   "Managed a budget of two million dollars",
   "1. Designed the new onboarding flow",
   "a) Reduced cloud costs by a third",
   "Builtde the data platform for analytics",
   "Worked at Acme"}

BulletTexts == UNION {{Join(ls, "\n") : ls \in [1..n -> SampleLines]} : n \in 0..MaxLines}

BulletsUnit ==
  /\ unit.fn = "none"
  /\ \E text \in BulletTexts, max_bullets \in 0..MaxBulletsArg :
       unit' = [fn |-> "extract_bullet_points",
                in |-> [text |-> text, max_bullets |-> max_bullets],
                out |-> extract_bullet_points(text, max_bullets),
                pass1 |-> Pass1(Split(text, "\n"), <<>>, max_bullets)]
  /\ UNCHANGED <<client, env, run, calls>>

SpecBullets == InitUnit /\ [][BulletsUnit]_vars

(* clean_text on its own, applied to a text and then to its own result:     *)
(* texts of up to MaxTextLen characters, with tabs and blank lines          *)

TextAlphabet == {"a", " ", "\n", "\t"}

RECURSIVE TextsUpTo(_)
TextsUpTo(n) ==
  IF n = 0 THEN {""}
  ELSE LET shorter == TextsUpTo(n - 1)
       IN  shorter \cup {t \o c : t \in shorter, c \in TextAlphabet}

CleanUnit ==
  /\ unit.fn = "none"
  /\ \E text \in TextsUpTo(MaxTextLen) :
       unit' = [fn |-> "clean_text", in |-> text, out |-> clean_text(text)]
  /\ UNCHANGED <<client, env, run, calls>>

CleanAgainUnit ==
  /\ unit.fn = "clean_text"
  /\ unit' = [fn |-> "clean_text again", in |-> unit.out, out |-> clean_text(unit.out)]
  /\ UNCHANGED <<client, env, run, calls>>

NextClean == CleanUnit \/ CleanAgainUnit

SpecClean == InitUnit /\ [][NextClean]_vars

(* rewrite_bullets on its own: replies whose "rewrites" is a list of up to  *)
(* MaxRewrites items, or no list at all                                     *)

FullRewrite ==
  JObj(<< <<"original", JStr("Led a team")>>, <<"improved", JStr("Led 5 engineers")>>,
          <<"explanation", JStr("quantified")>> >>)

RewriteItemChoices ==
  <<FullRewrite,
    JObj(<< <<"original", JStr("Built tools")>> >>),
    JObj(<< <<"original", JStr("Ran tests")>>, <<"improved", JNum(50)>> >>),
    JStr("Led a team"),
    JNull>>

RewritesChoices == <<Absent, JNull, JStr("ab"), JStr(""), JObj(<<>>), JNum(10)>>

RewriteObjOf(rewrites) ==
  Json(JObj(IF rewrites.t = "absent" THEN <<>> ELSE << <<"rewrites", rewrites>> >>))

RewriteUnit ==
  /\ unit.fn = "none"
  /\ \E bullet_points \in {<<>>, <<"Led a team">>}, n \in 0..3 :
       \E len \in IF n = 0 THEN 0..MaxRewrites ELSE {0} :
         \E ix \in [1..len -> DOMAIN RewriteItemChoices],
            other \in IF n = 1 THEN DOMAIN RewritesChoices ELSE {1},
            failed \in IF n = 2 THEN 1..2 ELSE {1} :
           \E reply \in {CASE n = 0 -> RewriteObjOf(JList([i \in 1..len |-> RewriteItemChoices[ix[i]]]))
                            [] n = 1 -> RewriteObjOf(RewritesChoices[other])
                            [] n = 2 -> NonObjectReplies[failed]
                            [] n = 3 -> NonObjectReplies[3]} :
             unit' = [fn |-> "rewrite_bullets",
                      in |-> [bullet_points |-> bullet_points, reply |-> reply],
                      out |-> rewrite_bullets(bullet_points, reply)]
  /\ UNCHANGED <<client, env, run, calls>>

SpecRewrite == InitUnit /\ [][RewriteUnit]_vars

(* analyze on its own: replies whose "sections" is a list of up to          *)
(* MaxFeedback items, or no list, with an overall_summary of any kind       *)

FeedbackItemChoices ==
  <<FeedbackSection,
    JObj(<<>>),
    JObj(<< <<"section_name", JStr("skills")>>, <<"missing_elements", JList(<<JStr("tools")>>)>> >>),
    JObj(<< <<"strengths", JStr("good")>> >>),
    JStr("work_experience")>>

SectionsChoices == <<Absent, JNull, JStr("ab"), JNum(10)>>

SummaryChoices == <<Absent, JStr("A solid start."), JNull, JNum(50)>>

FeedbackObjOf(sections, summary) ==
  Json(JObj((IF summary.t = "absent" THEN <<>> ELSE << <<"overall_summary", summary>> >>)
              \o (IF sections.t = "absent" THEN <<>> ELSE << <<"sections", sections>> >>)))

AnalyzeUnit ==
  /\ unit.fn = "none"
  /\ \E n \in 0..2 :
       \E len \in IF n = 0 THEN 0..MaxFeedback ELSE {0} :
         \E ix \in [1..len -> DOMAIN FeedbackItemChoices],
            other \in IF n = 1 THEN DOMAIN SectionsChoices ELSE {1},
            sm \in IF n = 2 THEN {1} ELSE DOMAIN SummaryChoices,
            failed \in IF n = 2 THEN DOMAIN NonObjectReplies ELSE {1} :
           \E reply \in {CASE n = 0 -> FeedbackObjOf(JList([i \in 1..len |-> FeedbackItemChoices[ix[i]]]),
                                                     SummaryChoices[sm])
                            [] n = 1 -> FeedbackObjOf(SectionsChoices[other], SummaryChoices[sm])
                            [] n = 2 -> NonObjectReplies[failed]} :
             unit' = [fn |-> "analyze", in |-> reply, out |-> analyze(reply)]
  /\ UNCHANGED <<client, env, run, calls>>

SpecAnalyze == InitUnit /\ [][AnalyzeUnit]_vars

(* AnalysisResult.formatted_report on its own, for results with up to       *)
(* MaxFeedback sections of feedback and MaxRewrites suggestions             *)

ReportUnit ==
  LET Feedbacks ==
        {SectionFeedback("contact", TRUE, <<"has email">>, <<>>, <<"phone", "city">>),
         SectionFeedback("work_experience", TRUE, <<"clear roles", "dated">>,
                         <<"add metrics">>, <<"team size">>),
         SectionFeedback("skills", FALSE, <<>>, <<"list tools", "group them">>, <<>>),
         SectionFeedback("Error", FALSE, <<>>, <<>>, <<>>)}
      Rewrites ==
        {RewriteSuggestion("Led a team", "Led 5 engineers", "quantified"),
         RewriteSuggestion("Did tests", "Automated 40 tests", "")}
      Results ==
        {ScoreResult(5, 5, 5, 5, 5), ScoreResult(9, 10, 9, 9, 9), ScoreResult(7, 8, 6, 9, 5)}
  IN
  /\ unit.fn = "none"
  /\ \E scores \in Results, up \in BOOLEAN, n \in 0..MaxFeedback, m \in 0..MaxRewrites,
        summary \in {"", "A solid start."} :
       /\ up => WeightedSum(scores) % 10 # 0
       /\ \E fbs \in [1..n -> Feedbacks], rws \in [1..m -> Rewrites] :
            \E a \in {[resume |-> ResumeData(clean_text(TBullets), "cv.txt", ".txt"),
                        scores |-> scores, section_feedback |-> fbs,
                        rewrite_suggestions |-> rws, overall_summary |-> summary]} :
              unit' = [fn |-> "formatted_report", in |-> a, out |-> formatted_report(a, up)]
  /\ UNCHANGED <<client, env, run, calls>>

SpecReport == InitUnit /\ [][ReportUnit]_vars

(* a ScoreResult on its own: construction, reads of overall and grade, and  *)
(* assignments to a stored score between reads.  unit.in is the object.     *)

NewScoreResult ==
  /\ unit.fn = "none"
  /\ \E c, i, r, k, a \in 1..10 :
       unit' = [fn |-> "ScoreResult", in |-> ScoreResult(c, i, r, k, a), out |-> <<>>]
  /\ UNCHANGED <<client, env, run, calls>>

ReadOverall ==
  /\ unit.fn \in {"ScoreResult", "setattr"}
  /\ \E up \in BOOLEAN :
       /\ up => WeightedSum(unit.in) % 10 # 0
       /\ unit' = [fn |-> "overall", in |-> unit.in, after |-> unit.fn,
                   out |-> [overall |-> overall(unit.in, up),
                            grade |-> grade(overall(unit.in, up))]]
  /\ UNCHANGED <<client, env, run, calls>>

SetScore ==
  /\ unit.fn = "overall"
  /\ \E n \in 1..5, v \in 1..10 :
       /\ v # unit.in[Criteria[n]]
       /\ unit' = [fn |-> "setattr", in |-> [unit.in EXCEPT ![Criteria[n]] = v], out |-> <<>>]
  /\ UNCHANGED <<client, env, run, calls>>

SpecOverall == InitUnit /\ [][NewScoreResult \/ ReadOverall \/ SetScore]_vars

----------------------------------------------------------------------------
(* Properties.  run, calls and client are read under Spec; unit is read     *)
(* under SpecScore, SpecDetect and SpecBullets.                             *)

IsObjectReply(reply) == reply.kind = "json" /\ reply.v.t = "obj"

FieldOf(reply, name) == Get(reply.v, name, Absent)

IsNumField(reply, name, tenths) ==
  FieldOf(reply, name).t = "num" /\ FieldOf(reply, name).v = tenths

IsScenarioB(reply) ==
  /\ IsObjectReply(reply)
  /\ IsNumField(reply, "clarity", 120)
  /\ IsNumField(reply, "impact", -30)
  /\ IsNumField(reply, "relevance", 76)
  /\ IsNumField(reply, "completeness", 50)
  /\ IsNumField(reply, "ats_score", 50)

Abs(n) == IF n >= 0 THEN n ELSE 0 - n

(* the integer part of a number held in tenths *)
TowardZero(tenths) ==
  CHOOSE n \in -20..20 : n * tenths >= 0 /\ Abs(tenths) - 10 * Abs(n) \in 0..9

(* the nearest integer of a number held in tenths, ties to even as round() *)
Nearest(tenths) ==
  CHOOSE n \in -20..20 :
    \/ Abs(10 * n - tenths) < 5
    \/ Abs(10 * n - tenths) = 5 /\ n % 2 = 0

Clamped(n) == IF n < 1 THEN 1 ELSE IF n > 10 THEN 10 ELSE n

AllFive(res) == \A i \in 1..5 : res[Criteria[i]] = 5

(* C1: every run that reached the Gateway completes and returns the five    *)
(* rendered outputs, whatever the steps' Gateway outcomes were              *)
C1_PartialFailureNeverAborts ==
  (run.pc = "done" /\ calls # <<>>) =>
    /\ run.outcome = "complete"
    /\ Len(run.ret) = 5
    /\ \A i \in 1..5 : run.ret[i] # Empty

(* C2: every field of the ScoreResult returned by score is an integer in    *)
(* 1..10, for every Gateway outcome                                         *)
C2_ScoresInRange ==
  unit.fn = "score" => \A i \in 1..5 : unit.out.result[Criteria[i]] \in 1..10

C2_Witness ==
  /\ unit.fn = "score"
  /\ IsScenarioB(unit.in)
  /\ unit.out.result.clarity = 10
  /\ unit.out.result.impact = 1

(* C3 as stated: a numeric field is rounded to the nearest integer and then *)
(* clamped; Scenario B is stored as 10, 1, 8, 5, 5 with overall 5.6, grade D *)
C3_RoundsThenClamps ==
  (unit.fn = "score" /\ IsObjectReply(unit.in)
     /\ \A i \in 1..5 : FieldOf(unit.in, Criteria[i]).t = "num") =>
    /\ \A i \in 1..5 :
         unit.out.result[Criteria[i]] = Clamped(Nearest(FieldOf(unit.in, Criteria[i]).v))
    /\ IsScenarioB(unit.in) =>
         /\ unit.out.result = ScoreResult(10, 1, 8, 5, 5)
         /\ \A up \in BOOLEAN : overall(unit.out.result, up) = 56
         /\ \A up \in BOOLEAN : grade(overall(unit.out.result, up)) = "D"

(* C3 amended: a numeric field is truncated toward zero and then clamped;   *)
(* Scenario B is stored as 10, 1, 7, 5, 5 with overall 5.4, grade D          *)
C3_TruncatesThenClamps ==
  (unit.fn = "score" /\ IsObjectReply(unit.in)
     /\ \A i \in 1..5 : FieldOf(unit.in, Criteria[i]).t = "num") =>
    /\ \A i \in 1..5 :
         unit.out.result[Criteria[i]] = Clamped(TowardZero(FieldOf(unit.in, Criteria[i]).v))
    /\ IsScenarioB(unit.in) =>
         /\ unit.out.result = ScoreResult(10, 1, 7, 5, 5)
         /\ \A up \in BOOLEAN : overall(unit.out.result, up) = 54
         /\ \A up \in BOOLEAN : grade(overall(unit.out.result, up)) = "D"

C3_Witness ==
  /\ unit.fn = "score"
  /\ IsScenarioB(unit.in)
  /\ unit.out.result.relevance = 7

(* a criterion whose value int() rejects *)
RejectedField(reply) ==
  \E i \in 1..5 : FieldOf(reply, Criteria[i]).t \in {"null", "nonfinite", "list", "obj"}

MissingField(reply) == \E i \in 1..5 : FieldOf(reply, Criteria[i]).t = "absent"

(* C4 as stated: a Gateway error, a reply that is not JSON and a reply that *)
(* lacks one or more of the five fields all give the all-5 result           *)
C4_MissingFieldGivesNeutral ==
  (unit.fn = "score" /\ (~IsObjectReply(unit.in) \/ MissingField(unit.in))) =>
    /\ AllFive(unit.out.result)
    /\ \A up \in BOOLEAN : overall(unit.out.result, up) = 50
    /\ \A up \in BOOLEAN : grade(overall(unit.out.result, up)) = "D"

(* C4 amended: a Gateway error, a reply that is not a JSON object and a     *)
(* reply with a field int() rejects give the all-5 result, overall 5.0,     *)
(* grade D; otherwise a missing field alone is 5 and the fields present     *)
(* keep their own clamped values                                            *)
C4_FailureGivesNeutral ==
  unit.fn = "score" =>
    IF ~IsObjectReply(unit.in) \/ RejectedField(unit.in)
    THEN /\ AllFive(unit.out.result)
         /\ \A up \in BOOLEAN : overall(unit.out.result, up) = 50
         /\ \A up \in BOOLEAN : grade(overall(unit.out.result, up)) = "D"
    ELSE \A i \in 1..5 :
           LET f == FieldOf(unit.in, Criteria[i])
           IN  /\ f.t = "absent" => unit.out.result[Criteria[i]] = 5
               /\ f.t = "num" => unit.out.result[Criteria[i]] = Clamped(TowardZero(f.v))

C4_Witness ==
  /\ unit.fn = "score"
  /\ IsObjectReply(unit.in)
  /\ FieldOf(unit.in, "clarity").t = "absent"
  /\ IsNumField(unit.in, "impact", 120)
  /\ unit.out.result.clarity = 5
  /\ unit.out.result.impact = 10

(* C5: no step issues a Gateway call after one of its calls has failed *)
C5_NoCallAfterFailure ==
  \A i, j \in 1..Len(calls) :
    (i < j /\ calls[i].step = calls[j].step) => calls[i].kind = "json"

HaltedBeforeGateway ==
  run.outcome \in {"missing_credential", "unsupported", "import_error", "extraction_failure"}

(* C6: a run that ends with a missing credential, an unsupported extension  *)
(* or an extraction failure has made no Gateway call, and no Gateway call   *)
(* is ever made without the credential                                      *)
C6_HaltsBeforeGateway ==
  /\ HaltedBeforeGateway => calls = <<>>
  /\ calls # <<>> => env.api_key /\ client = "OpenAI"

C6_Witness ==
  /\ run.pc = "done"
  /\ run.outcome = "extraction_failure"
  /\ run.id = 2
  /\ client = "OpenAI"

NoExtractableText(file) ==
  \/ file.bytes.kind = "empty"
  \/ file.bytes.kind = "text" /\ file.bytes.text \in {"", TBlank}

(* C7: a run on a readable upload without extractable text ends with the    *)
(* 'no readable text' message and makes no Gateway call                     *)
C7_NoTextOutcome ==
  (run.pc = "done" /\ run.has_file /\ NoExtractableText(run.file)
     /\ run.outcome \notin {"missing_credential", "unsupported", "import_error"}) =>
    /\ run.outcome = "no_text"
    /\ run.ret = MessageOnly(NoTextMessage)
    /\ calls = <<>>

(* C8: detect_sections leaves at least one Section for every Gateway        *)
(* outcome, and exactly the full_resume Section when the Gateway failed     *)
C8_AtLeastOneSection ==
  unit.fn = "detect_sections" =>
    /\ Len(unit.out.sections) >= 1
    /\ unit.in.reply.kind # "json" =>
         unit.out.sections = <<ResumeSection("full_resume", unit.in.resume.raw_text)>>

NullMarker(j) == j.t = "null" \/ (j.t = "str" /\ j.v = "null")

SectionNames(resume) == [i \in 1..Len(resume.sections) |-> resume.sections[i].name]

(* C9 as stated: one Section for each taxonomy key whose value is present   *)
(* and not the null marker, in the taxonomy's order                         *)
C9_TaxonomyOrder ==
  (unit.fn = "detect_sections" /\ IsObjectReply(unit.in.reply)) =>
    SectionNames(unit.out) =
      SelectSeq(Taxonomy, LAMBDA k : HasKey(unit.in.reply.v, k)
                                       /\ ~NullMarker(Get(unit.in.reply.v, k, JNull)))

(* a value of the reply that becomes a Section *)
IsSectionText(j) == j.t = "str" /\ j.v \notin {"", "null"}

(* C9 amended: one Section for each key of the reply whose value is a       *)
(* non-empty string other than "null", in the reply's order; a null, "",    *)
(* "null" or absent value gives none; a non-empty value that is no string   *)
(* gives the single full_resume Section                                     *)
C9_ReplyOrder ==
  (unit.fn = "detect_sections" /\ IsObjectReply(unit.in.reply)) =>
    LET pairs == unit.in.reply.v.v
        texts == SelectSeq(pairs, LAMBDA kv : IsSectionText(kv[2]))
    IN  IF \E i \in 1..Len(pairs) : pairs[i][2].t # "str" /\ Truthy(pairs[i][2])
        THEN unit.out.sections = <<ResumeSection("full_resume", unit.in.resume.raw_text)>>
        ELSE /\ Len(unit.out.sections) = Len(texts)
             /\ \A i \in 1..Len(texts) :
                  /\ unit.out.sections[i].name = texts[i][1]
                  /\ unit.out.sections[i].content = texts[i][2].v

C9_Witness ==
  /\ unit.fn = "detect_sections"
  /\ IsObjectReply(unit.in.reply)
  /\ Len(unit.in.reply.v.v) = 3
  /\ unit.in.reply.v.v[1][1] = "skills"
  /\ unit.in.reply.v.v[2][1] = "awards"
  /\ NullMarker(unit.in.reply.v.v[2][2])
  /\ unit.in.reply.v.v[3][1] = "contact"
  /\ SectionNames(unit.out) = <<"skills", "contact">>

(* C10: extract_bullet_points returns at most max_bullets elements *)
C10_AtMostMaxBullets ==
  unit.fn = "extract_bullet_points" => Len(unit.out) <= unit.in.max_bullets

IsMarkerLine(line) ==
  /\ line # ""
  /\ \/ Head(line) \in {"-", "*"}
     \/ Head(line) \in Digits
     \/ Len(line) >= 2 /\ CharAt(line, 2) = ")"

(* e is what follows the marker of a marker line of the text *)
IsRemainderIn(e, text) ==
  \E line \in SampleLines :
    /\ Contains(text, line)
    /\ IsMarkerLine(line)
    /\ Len(e) < Len(line)
    /\ SubSeq(line, Len(line) - Len(e) + 1, Len(line)) = e

IsLineIn(e, text) == \E line \in SampleLines : Contains(text, line) /\ line = e

(* C11: an element of pass 1 is the remainder of a marker line and longer   *)
(* than 20 characters, an element of pass 2 is a line longer than 25; the   *)
(* two-bullet example yields its first bullet alone                         *)
C11_BulletLengths ==
  unit.fn = "extract_bullet_points" =>
    /\ IF unit.pass1 # <<>>
       THEN /\ unit.out = unit.pass1
            /\ \A i \in 1..Len(unit.out) :
                 Len(unit.out[i]) > 20 /\ IsRemainderIn(unit.out[i], unit.in.text)
       ELSE \A i \in 1..Len(unit.out) :
              Len(unit.out[i]) > 25 /\ IsLineIn(unit.out[i], unit.in.text)
    /\ unit.in.text = TBullets =>
         unit.out = <<"Led a team of 5 engineers to deliver project X">>

C11_Witness ==
  /\ unit.fn = "extract_bullet_points"
  /\ unit.in.text = TBullets
  /\ unit.in.max_bullets = 2
  /\ unit.pass1 = <<"Led a team of 5 engineers to deliver project X">>
  /\ unit.out = unit.pass1

(* C12: clean_text applied to a result of clean_text returns it unchanged *)
C12_CleanTextIdempotent ==
  unit.fn = "clean_text again" => unit.out = unit.in

(* a trimmed raw line the secondary pass may hand to the rewriter *)
QualifiesForSecondary(line) ==
  /\ Len(line) > 40
  /\ \A x \in {"email", "phone", "@", "university", "degree", "bachelor", "master"} :
       ~Contains(Lower(line), x)

(* the first 5 qualifying lines of a text, in document order *)
SecondaryCandidates(raw_text) ==
  LET q == SelectSeq(MapSeq(Strip, Split(raw_text, "\n")), QualifiesForSecondary)
  IN  SubSeq(q, 1, IF Len(q) < 5 THEN Len(q) ELSE 5)

(* C13: when the primary rewrite returned an empty list, the secondary pass *)
(* sends one rewriting request whose argument is the first 5 qualifying     *)
(* lines, and none when no line qualifies or the primary returned rewrites  *)
C13_SecondaryCandidates ==
  [][(run.pc = "secondary" /\ run'.pc = "assemble") =>
       LET expected == IF run.rewrite_suggestions = <<>>
                       THEN SecondaryCandidates(run.resume.raw_text) ELSE <<>>
       IN  IF expected = <<>> THEN calls' = calls
           ELSE /\ Len(calls') = Len(calls) + 1
                /\ SubSeq(calls', 1, Len(calls)) = calls
                /\ calls'[Len(calls')].step = "rewrite"
                /\ calls'[Len(calls')].arg = expected]_vars

C13_Witness ==
  /\ run.pc = "assemble"
  /\ run.resume.raw_text = TLong
  /\ calls # <<>>
  /\ calls[Len(calls)].step = "rewrite"
  /\ calls[Len(calls)].arg =
       <<"Senior engineer at Acme Corp building billing systems",
         "Platform engineer at Initech running the data pipelines",
         "Backend engineer at Globex owning the payments service",
         "Volunteer teacher of programming at the local library",
         "Frequent speaker at regional software conferences">>

RewriteCalls == SelectSeq(calls, LAMBDA c : c.step = "rewrite")

PastRewriting ==
  run.pc = "assemble" \/ (run.pc = "done" /\ run.outcome \in {"complete", "validation_error"})

(* the cleaned TShort: no marker line, no action verb, no line over 40 *)
NoBulletText == "Jane Doe\n\nShort line"

HasExperienceSection ==
  \E i \in 1..Len(run.resume.sections) :
    Lower(run.resume.sections[i].name) \in {"experience", "work", "employment"}

(* C14: every rewriting request carries a non-empty list; rewrite_bullets   *)
(* of the empty list returns the empty list; a run on a text without        *)
(* bullets and candidate lines sends no rewriting request                   *)
C14_NoCallWithoutBullets ==
  /\ \A i \in 1..Len(calls) : calls[i].step = "rewrite" => calls[i].arg # <<>>
  /\ \A reply \in RewriteReplies : rewrite_bullets(<<>>, reply) = <<>>
  /\ (PastRewriting /\ run.resume.raw_text = NoBulletText /\ ~HasExperienceSection) =>
       RewriteCalls = <<>> /\ run.rewrite_suggestions = <<>>

C14_Witness ==
  /\ run.pc = "assemble"
  /\ run.resume.raw_text = NoBulletText
  /\ ~HasExperienceSection
  /\ Len(calls) = 3
  /\ RewriteCalls = <<>>

(* an element of "rewrites" from which a RewriteSuggestion can be built *)
IsTriple(j) ==
  /\ j.t = "obj"
  /\ \A k \in {"original", "improved", "explanation"} : Get(j, k, JStr("")).t = "str"

(* the reply of a rewriting request parses into triples *)
ParsesIntoTriples(reply) ==
  /\ IsObjectReply(reply)
  /\ LET rw == Get(reply.v, "rewrites", JList(<<>>))
     IN  \/ rw.t = "list" /\ \A i \in 1..Len(rw.v) : IsTriple(rw.v[i])
         \/ rw.t = "str" /\ rw.v = ""
         \/ rw.t = "obj" /\ rw.v = <<>>

(* C15: when the rewriting request fails or its reply does not parse into  *)
(* triples, rewrite_bullets returns the empty list, never a part of a list  *)
C15_RewriteFailureGivesEmpty ==
  (unit.fn = "rewrite_bullets" /\ unit.in.bullet_points # <<>>) =>
    IF ParsesIntoTriples(unit.in.reply)
    THEN LET rw == Get(unit.in.reply.v, "rewrites", JList(<<>>))
         IN  /\ Len(unit.out) = Len(rw.v)
             /\ \A i \in 1..Len(unit.out) :
                  unit.out[i].original = Get(rw.v[i], "original", JStr("")).v
    ELSE unit.out = <<>>

C15_Witness ==
  /\ unit.fn = "rewrite_bullets"
  /\ unit.in.bullet_points # <<>>
  /\ IsObjectReply(unit.in.reply)
  /\ HasKey(unit.in.reply.v, "rewrites")
  /\ FieldOf(unit.in.reply, "rewrites").t = "list"
  /\ Len(FieldOf(unit.in.reply, "rewrites").v) = 3
  /\ IsTriple(FieldOf(unit.in.reply, "rewrites").v[1])
  /\ IsTriple(FieldOf(unit.in.reply, "rewrites").v[2])
  /\ ~IsTriple(FieldOf(unit.in.reply, "rewrites").v[3])
  /\ unit.out = <<>>

IsTextList(j) == j.t = "list" /\ \A i \in 1..Len(j.v) : j.v[i].t = "str"

(* an element of "sections" that fits the schema of the feedback reply *)
IsFeedbackItem(j) ==
  /\ j.t = "obj"
  /\ Get(j, "section_name", JStr("Unknown")).t = "str"
  /\ Get(j, "content_found", JBool(TRUE)).t = "bool"
  /\ \A k \in {"strengths", "improvements", "missing_elements"} :
       IsTextList(Get(j, k, JList(<<>>)))

(* the reply of the feedback request does not fit its schema: no object, a  *)
(* "sections" that is no list of feedback items, or an overall_summary that *)
(* is no string                                                             *)
FeedbackMalformed(reply) ==
  \/ ~IsObjectReply(reply)
  \/ LET sections == Get(reply.v, "sections", JList(<<>>))
     IN  ~(sections.t = "list" /\ \A i \in 1..Len(sections.v) : IsFeedbackItem(sections.v[i]))
  \/ Get(reply.v, "overall_summary", JStr("")).t # "str"

(* C16: when the feedback request fails or its reply is malformed, analyze  *)
(* returns the single Error feedback and the fixed summary string           *)
C16_FailureGivesErrorFeedback ==
  (unit.fn = "analyze" /\ FeedbackMalformed(unit.in)) =>
    /\ Len(unit.out.feedback) = 1
    /\ unit.out.feedback[1].section_name = "Error"
    /\ unit.out.feedback[1].content_found = FALSE
    /\ unit.out.feedback[1].strengths = <<>>
    /\ unit.out.feedback[1].missing_elements = <<>>
    /\ Len(unit.out.feedback[1].improvements) = 1
    /\ SubSeq(unit.out.feedback[1].improvements[1], 1, 17) = "Analysis failed: "
    /\ unit.out.summary.t = "str"
    /\ unit.out.summary.v = "Unable to generate analysis. Please try again."

(* the weighted sum of five scores in hundredths *)
Hundredths(f) ==
  20 * f.clarity + 25 * f.impact + 20 * f.relevance + 15 * f.completeness + 20 * f.ats_score

(* C17: every read of overall is the weighted sum of the scores stored at   *)
(* the read, rounded to one decimal (a nearest tenth), also after a stored  *)
(* score was changed                                                        *)
C17_OverallFromStoredScores ==
  unit.fn = "overall" =>
    /\ Abs(10 * unit.out.overall - Hundredths(unit.in)) <= 5
    /\ unit.out.overall \in 10..100

C17_Witness ==
  /\ unit.fn = "overall"
  /\ unit.after = "setattr"
  /\ unit.in = ScoreResult(10, 1, 7, 5, 5)
  /\ unit.out.overall = 54

(* C18: the grade read from a ScoreResult is A+ from 9.0, A from 8.0, B     *)
(* from 7.0, C from 6.0, D from 5.0 and F below, by overall alone           *)
C18_GradeThresholds ==
  unit.fn = "overall" =>
    LET o == unit.out.overall
        g == unit.out.grade
    IN  /\ g \in {"A+", "A", "B", "C", "D", "F"}
        /\ g = "A+" <=> o >= 90
        /\ g = "A" <=> (o >= 80 /\ o < 90)
        /\ g = "B" <=> (o >= 70 /\ o < 80)
        /\ g = "C" <=> (o >= 60 /\ o < 70)
        /\ g = "D" <=> (o >= 50 /\ o < 60)
        /\ g = "F" <=> o < 50

C18_Witness ==
  /\ unit.fn = "overall"
  /\ unit.out.overall = 89
  /\ unit.out.grade = "A"

C18_WitnessAtThreshold ==
  /\ unit.fn = "overall"
  /\ unit.out.overall = 90
  /\ unit.out.grade = "A+"

(* e is a subsequence of r: its lines occur in r, in the same order *)
RECURSIVE IsSubseq(_, _)
IsSubseq(e, r) ==
  IF e = <<>> THEN TRUE
  ELSE IF r = <<>> THEN FALSE
  ELSE IF Len(Head(r)) = Len(Head(e)) /\ Head(r) = Head(e) THEN IsSubseq(Tail(e), Tail(r))
  ELSE IsSubseq(e, Tail(r))

(* the positions of a heading in a report *)
HeadingAt(r, h) == {i \in DOMAIN r : Len(r[i]) = 1 /\ r[i][1] = h}

(* the lines of a report below a heading, none when the heading is absent *)
Below(r, h) ==
  IF HeadingAt(r, h) = {} THEN <<>>
  ELSE SubSeq(r, 1 + (CHOOSE i \in HeadingAt(r, h) : \A j \in HeadingAt(r, h) : i <= j), Len(r))

(* what a report has to say of the feedback and of the suggestions *)
RECURSIVE FeedbackContent(_)
FeedbackContent(fbs) ==
  IF fbs = <<>> THEN <<>>
  ELSE << <<"section", Upper(Head(fbs).section_name)>> >>
         \o [i \in 1..Len(Head(fbs).strengths) |-> <<"item", Head(fbs).strengths[i]>>]
         \o [i \in 1..Len(Head(fbs).improvements) |-> <<"item", Head(fbs).improvements[i]>>]
         \o [i \in 1..Len(Head(fbs).missing_elements) |-> <<"item", Head(fbs).missing_elements[i]>>]
         \o FeedbackContent(Tail(fbs))

RECURSIVE RewriteContent(_, _)
RewriteContent(rws, i) ==
  IF i > Len(rws) THEN <<>>
  ELSE << <<i, "Original:", rws[i].original>>, <<"Improved:", rws[i].improved>>,
          <<"Why:", rws[i].explanation>> >> \o RewriteContent(rws, i + 1)

(* C19: the plain-text report of an AnalysisResult holds the five scores,   *)
(* overall and grade, every section of feedback with its strengths,         *)
(* improvements and missing elements and every suggestion with original,    *)
(* improved text and explanation, each group in the order of the result;    *)
(* an empty summary, feedback list or suggestion list has no part in it     *)
C19_ReportIsComplete ==
  unit.fn = "formatted_report" =>
    LET a == unit.in
        r == unit.out
    IN  /\ Len(r) >= 10
        /\ r[5][1] = "Overall:"
        /\ Abs(10 * r[5][2] - Hundredths(a.scores)) <= 5
        /\ r[5][3] = grade(r[5][2])
        /\ \A n \in 1..5 : r[5 + n][2] = a.scores[Criteria[n]]
        /\ <<r[6][1], r[7][1], r[8][1], r[9][1], r[10][1]>>
             = <<"Clarity:", "Impact:", "Relevance:", "Completeness:", "ATS Score:">>
        /\ IsSubseq(FeedbackContent(a.section_feedback), Below(r, "SECTION FEEDBACK"))
        /\ IsSubseq(RewriteContent(a.rewrite_suggestions, 1), Below(r, "REWRITE SUGGESTIONS"))
        /\ a.overall_summary # "" => IsSubseq(<< <<a.overall_summary>> >>, Below(r, "SUMMARY"))
        /\ a.overall_summary = "" => HeadingAt(r, "SUMMARY") = {}
        /\ a.section_feedback = <<>> => HeadingAt(r, "SECTION FEEDBACK") = {}
        /\ a.rewrite_suggestions = <<>> => HeadingAt(r, "REWRITE SUGGESTIONS") = {}

C19_Witness ==
  /\ unit.fn = "formatted_report"
  /\ Len(unit.in.section_feedback) = 2
  /\ unit.in.section_feedback[1].missing_elements = <<"phone", "city">>
  /\ unit.in.section_feedback[2].strengths = <<>>
  /\ Len(unit.in.rewrite_suggestions) = 2
  /\ unit.in.rewrite_suggestions[2].explanation = ""
  /\ unit.in.overall_summary = ""
  /\ Len(unit.out) = 25

NothingToImprove ==
  "No bullet points found to improve. Try adding more content to your experience section."

CompletedWithoutRewrites ==
  /\ run.pc = "done"
  /\ run.outcome = "complete"
  /\ run.rewrite_suggestions = <<>>

(* C20: a completed run whose final list of rewrite suggestions is empty    *)
(* shows the message that no bullet points were found to improve as its     *)
(* rewrites view, never an empty or blank text                              *)
C20_EmptyRewritesMessage ==
  CompletedWithoutRewrites =>
    /\ Len(run.ret) = 5
    /\ Len(run.ret[4]) = 1
    /\ run.ret[4][1] = <<NothingToImprove>>
    /\ Strip(run.ret[4][1][1]) # ""

(* the rewriter failed on the bullets and the secondary pass came back empty *)
C20_Witness ==
  /\ CompletedWithoutRewrites
  /\ Len(RewriteCalls) = 2
  /\ RewriteCalls[1].kind # "json"
  /\ run.ret[4] = << <<NothingToImprove>> >>

Completed == run.pc = "done" /\ run.outcome = "complete"

(* C21: in a completed run the feedback view says something below its       *)
(* heading and the overview of the summary view is not blank, also when the *)
(* feedback list or the overall summary is empty or the analysis failed     *)
C21_PlaceholdersForEmptyParts ==
  Completed =>
    /\ Len(run.ret[3]) > 1
    /\ Strip(run.ret[1][5][2]) # ""

(* the two calls in flight: the one that holds the processor and the other *)
Running == [run |-> run, calls |-> calls]

Waiting == [run |-> unit.in, calls |-> unit.out]

(* what a call was given: its upload, the outcomes of its requests and the  *)
(* direction of the one rounding tie                                        *)
SameInputs(a, b) ==
  /\ a.run.has_file = b.run.has_file
  /\ a.run.file = b.run.file
  /\ a.calls = b.calls
  /\ a.run.half_up = b.run.half_up

SameOutputs(a, b) ==
  /\ a.run.outcome = b.run.outcome
  /\ a.run.scores = b.run.scores
  /\ a.run.scorer = b.run.scorer
  /\ a.run.section_feedback = b.run.section_feedback
  /\ a.run.rewrite_suggestions = b.run.rewrite_suggestions
  /\ a.run.ret = b.run.ret

C22_WitnessTwoUploads ==
  /\ Running.run.outcome = "complete"
  /\ Waiting.run.outcome = "complete"
  /\ Running.run.file.file_name = "cv.txt"
  /\ Waiting.run.file.file_name = "plain.txt"
  /\ Running.run.scores # Waiting.run.scores

(* a step within one run, from a state in which the document exists *)
StepOfRun == run.pc \notin {"idle", "done"} /\ run'.id = run.id

(* C23: within a run the sections of the document are empty until section   *)
(* detection, are assigned by the step of section detection and by no other *)
(* step, and detection and every later step leave raw_text, file_name,      *)
(* file_type and word_count as they were, word_count being the number of    *)
(* words of raw_text                                                        *)
C23_DocumentFrame ==
  [][StepOfRun =>
       /\ run.pc = "detect" => run.resume.sections = <<>>
       /\ run.pc # "detect" => run'.resume.sections = run.resume.sections
       /\ run.pc = "detect" =>
            /\ Len(calls') = Len(calls) + 1
            /\ run'.pc = "score"
            /\ \/ run'.resume.sections = <<ResumeSection("full_resume", run.resume.raw_text)>>
               \/ /\ calls'[Len(calls')].kind = "json"
                  /\ \A i \in DOMAIN run'.resume.sections :
                       run'.resume.sections[i].name # "full_resume"
            /\ run.resume.word_count = CountWords(run.resume.raw_text)
       /\ run'.resume.raw_text = run.resume.raw_text
       /\ run'.resume.file_name = run.resume.file_name
       /\ run'.resume.file_type = run.resume.file_type
       /\ run'.resume.word_count = run.resume.word_count]_vars

C23_Witness ==
  /\ Completed
  /\ Len(run.resume.sections) = 2
  /\ run.resume.sections[1].name = "contact"
  /\ run.resume.raw_text = clean_text(TBullets)
  /\ run.resume.word_count = 15

(* a reply on which score returns the neutral fallback: no JSON object, or  *)
(* a criterion that int() rejects                                           *)
ScoreFailed(reply) ==
  \/ ~IsObjectReply(reply)
  \/ \E i \in 1..5 : FieldOf(reply, Criteria[i]).t # "absent"
                      /\ ~IntOf(FieldOf(reply, Criteria[i])).ok

(* C24: after every call of score on a ResumeScorer that returned the       *)
(* neutral fallback, the scorer holds no explanations, neither of an        *)
(* earlier call nor of the failed reply, and format_scores_display shows    *)
(* no Score Details                                                         *)
C24_ExplanationsOfLatestScores ==
  (unit.fn \in {"score", "score again"} /\ ScoreFailed(unit.in)) =>
    /\ AllFive(unit.out.result)
    /\ ~Truthy(unit.out.scorer.score_explanations)
    /\ LET d == format_scores_display(unit.out.scorer, unit.out.result, FALSE)
       IN  d.ok /\ \A i \in DOMAIN d.lines :
                      ~(Len(d.lines[i]) = 1 /\ d.lines[i][1] = "Score Details")

(* a word of the action-verb list, as it is or without one final "ed" *)
IsActionVerb(w) ==
  \/ w \in action_verbs
  \/ /\ Len(w) >= 2
     /\ SubSeq(w, Len(w) - 1, Len(w)) = "ed"
     /\ SubSeq(w, 1, Len(w) - 2) \in action_verbs

(* the stripped lines of a text that pass 2 is to retain *)
VerbLines(text) ==
  SelectSeq(MapSeq(Strip, Split(text, "\n")),
            LAMBDA line : Len(line) > 25 /\ IsActionVerb(Lower(FirstWord(line))))

(* C25: when pass 1 retained a bullet the result is that of pass 1; when it *)
(* retained none, the lines returned are lines longer than 25 characters    *)
(* whose first word, in lower case, is an action verb as it is or without   *)
(* one final "ed", in the order of the text, and all of them unless the     *)
(* limit was reached                                                        *)
C25_Pass2VerbLines ==
  unit.fn = "extract_bullet_points" =>
    IF unit.pass1 # <<>> THEN unit.out = unit.pass1
    ELSE /\ IsSubseq(unit.out, VerbLines(unit.in.text))
         /\ Len(unit.out) < unit.in.max_bullets => unit.out = VerbLines(unit.in.text)

(* how a run ended: by a ValueError, by another exception, or by a return  *)
(* of a message before the analysis                                         *)
EndedByValueError ==
  run.outcome \in {"missing_credential", "unsupported", "no_bytes", "extraction_failure",
                   "validation_error"}

EndedByOtherException == run.outcome \in {"import_error", "display_error"}

EndedByMessage == run.outcome \in {"no_file", "no_text"}

(* C26: every run returns five outputs; a run that ended in an exception    *)
(* returns a message and four empty outputs, the message being the          *)
(* Configuration Error for a ValueError and Error analyzing resume for      *)
(* every other exception                                                    *)
C26_AlwaysFiveOutputs ==
  run.pc = "done" =>
    /\ Len(run.ret) = 5
    /\ EndedByValueError \/ EndedByOtherException \/ EndedByMessage \/ run.outcome = "complete"
    /\ (EndedByValueError \/ EndedByOtherException \/ EndedByMessage) =>
         /\ \A i \in 2..5 : run.ret[i] = Empty
         /\ Len(run.ret[1]) = 1
    /\ EndedByValueError =>
         (Len(run.ret[1][1]) = 2 /\ run.ret[1][1][1] = "Configuration Error:")
    /\ EndedByOtherException =>
         (Len(run.ret[1][1]) = 2 /\ run.ret[1][1][1] = "Error analyzing resume:")

C26_Witness ==
  /\ run.pc = "done"
  /\ run.outcome = "extraction_failure"
  /\ run.file.bytes.kind = "corrupt"
  /\ run.ret = MessageOnly(ConfigurationError("extraction failed"))

(* a run that an exception ended after Gateway requests *)
C26_WitnessLate ==
  /\ run.pc = "done"
  /\ run.outcome = "validation_error"
  /\ Len(calls) >= 3
  /\ run.ret[1][1][1] = "Configuration Error:"

====
